---------------------------- MODULE Spec2Model ----------------------------
(***************************************************************************)
(* The IR witness interpreter of zokrates_core (ir/interpreter.rs) and the *)
(* LinComb / QuadComb algebra it evaluates (ir/expression.rs).             *)
(*                                                                         *)
(* The interpreter is generic over a prime field T: Field.  The field is   *)
(* the state variable p (its modulus); field elements are the canonical    *)
(* representatives 0..p-1 and every field operation reduces modulo p.      *)
(***************************************************************************)
EXTENDS Integers, Sequences, FiniteSets, TLC

VARIABLES
    p,        \* modulus of the field T the interpreter is instantiated with
    flag,     \* Interpreter.should_try_out_of_range
    prog,     \* program.main: [arguments, statements]
    inputs,   \* the input values handed to execute
    witness,  \* the local BTreeMap<FlatVariable, T> of execute
    pc,       \* position of execute
    idx,      \* 1-based index of the statement the loop is at
    arm,      \* the match arm the last step of execute went through
    written,  \* the keys the last step passed to witness.insert, in order
    result,   \* what execute returned: None, Ok(witness) or Err(error)
    call,     \* a direct call of execute_solver, [solver, inputs], or of an
              \* operation of LinComb / QuadComb, [op, args]
    ret       \* what that call came to: pending, a return value or an abort

vars == <<p, flag, prog, inputs, witness, pc, idx, arm, written, result, call, ret>>

-----------------------------------------------------------------------------
(* Bounds of the model *)

\* longest statement list of a program
MaxStmts == 2
\* longest input list handed to execute
MaxInputs == 2
\* largest modulus of the fields execute_solver is called in
MaxModulus == 10
\* longest input list handed to execute_solver
MaxSolverInputs == 3
\* longest stored term list of a LinComb handed to an operation of the algebra
MaxTerms == 3

-----------------------------------------------------------------------------
(* Field T *)

\* FlatVariable::one(): the variable ~one, index 0
ONE == 0

RECURSIVE Pow2(_)
Pow2(i) == IF i <= 0 THEN 1 ELSE 2 * Pow2(i - 1)

FAdd(x, y) == (x + y) % p
FSub(x, y) == (x + p - y) % p
FMul(x, y) == (x * y) % p
\* T::from(n) for a small non-negative integer n
FFrom(n) == n % p
\* T::from(2).pow(i): exponentiation in the field
FPow2(i) == Pow2(i) % p
\* inverse_mul of a non-zero element
FInv(x) == CHOOSE y \in 1..(p - 1) : (x * y) % p = 1
\* Field division; division by zero aborts (the caller tests y = 0 first)
FDiv(x, y) == FMul(x, FInv(y))
\* T::get_required_bits(): the bit length of the modulus
RequiredBits == CHOOSE b \in 1..p : Pow2(b - 1) <= p /\ p < Pow2(b)
\* T::max_value() = p - 1
MaxValue == p - 1
\* to_biguint: the canonical representative as an unbounded integer
ToBigUint(x) == x

Digits == <<"0", "1", "2", "3", "4", "5", "6", "7", "8", "9">>

\* to_dec_string: decimal rendering of the canonical representative
RECURSIVE ToDecString(_)
ToDecString(n) ==
    IF n < 10 THEN Digits[n + 1]
    ELSE ToDecString(n \div 10) \o Digits[(n % 10) + 1]

-----------------------------------------------------------------------------
(* LinComb, QuadComb, Statement *)

\* one stored term (FlatVariable, T) of a LinComb
Term(v, c) == [var |-> v, coeff |-> c]

\* QuadComb::from_linear_combinations
Quad(l, r) == [left |-> l, right |-> r]

\* Statement::Constraint(quad, lin)
Constraint(q, l) == [kind |-> "Constraint", quad |-> q, lin |-> l]

\* Statement::Directive(Directive { inputs, solver, outputs })
Directive(s, ins, outs) ==
    [kind |-> "Directive", solver |-> s, inputs |-> ins, outputs |-> outs]

\* Solver::Bits(bit_width) and the other variants of the closed enum
Bits(w) == [name |-> "Bits", width |-> w]
Plain(n) == [name |-> n, width |-> 0]

\* Solver::get_signature: (input count, output count)
GetSignature(s) ==
    CASE s.name = "ConditionEq" -> <<1, 2>>
      [] s.name = "Bits" -> <<1, s.width>>
      [] s.name = "Xor" -> <<2, 1>>
      [] s.name = "Or" -> <<2, 1>>
      [] s.name = "ShaAndXorAndXorAnd" -> <<3, 1>>
      [] s.name = "ShaCh" -> <<3, 1>>
      [] s.name = "Div" -> <<2, 1>>

-----------------------------------------------------------------------------
(* Evaluation under a witness *)

EmptyWitness == [v \in {} |-> 0]

\* BTreeMap::insert: binds k, replacing the value of a key already present
Insert(w, k, val) == [v \in (DOMAIN w) \cup {k} |-> IF v = k THEN val ELSE w[v]]

\* the variables of the stored terms of a LinComb
LinVars(l) == {l[i].var : i \in 1..Len(l)}

RECURSIVE LinSum(_, _, _)
LinSum(l, w, n) ==
    IF n = 0 THEN FFrom(0)
    ELSE FAdd(LinSum(l, w, n - 1), FMul(w[l[n].var], l[n].coeff))

\* LinComb::evaluate: Err(()) if a variable of a term is missing, else the
\* fold of the products from T::from(0)
LinEvaluate(l, w) ==
    IF LinVars(l) \subseteq DOMAIN w
    THEN [ok |-> TRUE, val |-> LinSum(l, w, Len(l))]
    ELSE [ok |-> FALSE, val |-> 0]

\* is_assignee without the contains_key test
IsAssignee_IgnoresWitness(l, w) ==
    /\ Len(l) = 1
    /\ l[1].coeff = FFrom(1)

\* is_assignee without the test of the coefficient
IsAssignee_AnyCoefficient(l, w) ==
    /\ Len(l) = 1
    /\ l[1].var \notin DOMAIN w

\* LinComb::is_assignee
IsAssignee(l, w) ==
    /\ Len(l) = 1
    /\ l[1].coeff = FFrom(1)
    /\ l[1].var \notin DOMAIN w

\* QuadComb::evaluate: left and right evaluated with ?, then multiplied
QuadEvaluate(q, w) ==
    LET left == LinEvaluate(q.left, w)
        right == LinEvaluate(q.right, w)
    IN  IF left.ok /\ right.ok
        THEN [ok |-> TRUE, val |-> FMul(left.val, right.val)]
        ELSE [ok |-> FALSE, val |-> 0]

-----------------------------------------------------------------------------
(* Solvers: Interpreter::execute_solver *)

\* the loop of the Bits arm comparing with < where the code has <=
RECURSIVE BitsLoop_Strict(_, _, _)
BitsLoop_Strict(i, num, res) ==
    IF i < 0 THEN [num |-> num, res |-> res]
    ELSE IF FPow2(i) < num
         THEN BitsLoop_Strict(i - 1, FSub(num, FPow2(i)), Append(res, 1))
         ELSE BitsLoop_Strict(i - 1, num, Append(res, 0))

\* the loop of the Bits arm: for i in (0..bit_width).rev(), in the field
RECURSIVE BitsLoop(_, _, _)
BitsLoop(i, num, res) ==
    IF i < 0 THEN [num |-> num, res |-> res]
    ELSE IF FPow2(i) <= num
         THEN BitsLoop(i - 1, FSub(num, FPow2(i)), Append(res, 1))
         ELSE BitsLoop(i - 1, num, Append(res, 0))

Panic == [status |-> "panic", res |-> <<>>]
Solved(r) == [status |-> "ok", res |-> r]

\* the match over the solver with the assert_eq! after the loop of the Bits
\* arm left out
SolverArm_BitsUnchecked(s, ins) ==
    CASE s.name = "ConditionEq" ->
           IF ins[1] = 0 THEN Solved(<<0, 1>>)
           ELSE Solved(<<1, FDiv(1, ins[1])>>)
      [] s.name = "Bits" ->
           Solved(BitsLoop(s.width - 1, ins[1], <<>>).res)
      [] s.name = "Xor" ->
           Solved(<<FSub(FAdd(ins[1], ins[2]),
                         FMul(FMul(FFrom(2), ins[1]), ins[2]))>>)
      [] s.name = "Or" ->
           Solved(<<FSub(FAdd(ins[1], ins[2]), FMul(ins[1], ins[2]))>>)
      [] s.name = "ShaAndXorAndXorAnd" ->
           Solved(<<FSub(FMul(ins[2], ins[3]),
                         FMul(FSub(FSub(FMul(FMul(FFrom(2), ins[2]), ins[3]),
                                        ins[2]),
                                   ins[3]),
                              ins[1]))>>)
      [] s.name = "ShaCh" ->
           Solved(<<FAdd(FMul(ins[1], FSub(ins[2], ins[3])), ins[3])>>)
      [] s.name = "Div" ->
           IF ins[2] = 0 THEN Panic ELSE Solved(<<FDiv(ins[1], ins[2])>>)

\* the match over the solver; reached only with the declared input count
SolverArm(s, ins) ==
    CASE s.name = "ConditionEq" ->
           IF ins[1] = 0 THEN Solved(<<0, 1>>)
           ELSE Solved(<<1, FDiv(1, ins[1])>>)
      [] s.name = "Bits" ->
           LET r == BitsLoop(s.width - 1, ins[1], <<>>)
           IN  IF r.num = 0 THEN Solved(r.res) ELSE Panic
      [] s.name = "Xor" ->
           Solved(<<FSub(FAdd(ins[1], ins[2]),
                         FMul(FMul(FFrom(2), ins[1]), ins[2]))>>)
      [] s.name = "Or" ->
           Solved(<<FSub(FAdd(ins[1], ins[2]), FMul(ins[1], ins[2]))>>)
      [] s.name = "ShaAndXorAndXorAnd" ->
           Solved(<<FSub(FMul(ins[2], ins[3]),
                         FMul(FSub(FSub(FMul(FMul(FFrom(2), ins[2]), ins[3]),
                                        ins[2]),
                                   ins[3]),
                              ins[1]))>>)
      [] s.name = "ShaCh" ->
           Solved(<<FAdd(FMul(ins[1], FSub(ins[2], ins[3])), ins[3])>>)
      [] s.name = "Div" ->
           IF ins[2] = 0 THEN Panic ELSE Solved(<<FDiv(ins[1], ins[2])>>)

\* execute_solver whose ConditionEq arm returns x where the code returns 1 / x
ExecuteSolver_NoInverse(s, ins) ==
    IF Len(ins) # GetSignature(s)[1] THEN Panic
    ELSE LET r == SolverArm(s, ins)
         IN  IF r.status = "ok" /\ Len(r.res) # GetSignature(s)[2]
             THEN Panic
             ELSE IF s.name = "ConditionEq" /\ ins[1] # 0
                  THEN Solved(<<1, ins[1]>>)
                  ELSE r

\* execute_solver whose Xor arm returns x + y - x * y where the code returns
\* x + y - 2 * x * y
ExecuteSolver_XorWithoutTwo(s, ins) ==
    IF Len(ins) # GetSignature(s)[1] THEN Panic
    ELSE LET r == SolverArm(s, ins)
         IN  IF r.status = "ok" /\ Len(r.res) # GetSignature(s)[2]
             THEN Panic
             ELSE IF s.name = "Xor"
                  THEN Solved(<<FSub(FAdd(ins[1], ins[2]), FMul(ins[1], ins[2]))>>)
                  ELSE r

\* execute_solver returning Err where the code's assertions abort
ExecuteSolver_ErrOnFailure(s, ins) ==
    IF Len(ins) # GetSignature(s)[1] THEN [status |-> "err", res |-> <<>>]
    ELSE LET r == SolverArm(s, ins)
         IN  IF r.status # "ok" \/ Len(r.res) # GetSignature(s)[2]
             THEN [status |-> "err", res |-> <<>>]
             ELSE r

\* execute_solver: the two assertions around the match; every path that
\* returns returns Ok
ExecuteSolver(s, ins) ==
    IF Len(ins) # GetSignature(s)[1] THEN Panic
    ELSE LET r == SolverArm(s, ins)
         IN  IF r.status = "ok" /\ Len(r.res) # GetSignature(s)[2]
             THEN Panic
             ELSE r

-----------------------------------------------------------------------------
(* Interpreter::execute *)

NoResult == [tag |-> "None"]
NoCall == [solver |-> Plain("none"), inputs |-> <<>>]
NoReturn == [status |-> "pending", res |-> <<>>]
Ok(w) == [tag |-> "Ok", witness |-> w]
Err(e) == [tag |-> "Err", error |-> e]

WrongInputCount(e, r) ==
    [kind |-> "WrongInputCount", expected |-> e, received |-> r]
UnsatisfiedConstraint(l, r) ==
    [kind |-> "UnsatisfiedConstraint", left |-> l, right |-> r]
SolverError == [kind |-> "Solver"]

\* the binding of the arguments without the seed ~one |-> 1
RECURSIVE BindArguments_NoSeed(_, _, _)
BindArguments_NoSeed(args, ins, n) ==
    IF n = 0 THEN EmptyWitness
    ELSE Insert(BindArguments_NoSeed(args, ins, n - 1), args[n], ins[n])

\* the loop over main.arguments.iter().zip(inputs.iter()) after the seed
RECURSIVE BindArguments(_, _, _)
BindArguments(args, ins, n) ==
    IF n = 0 THEN Insert(EmptyWitness, ONE, FFrom(1))
    ELSE Insert(BindArguments(args, ins, n - 1), args[n], ins[n])

\* for (i, o) in d.outputs.iter().enumerate() { witness.insert(o, res[i]) }
\* res[i] aborts when the outputs outnumber the results
RECURSIVE BindOutputs(_, _, _, _)
BindOutputs(w, outs, res, n) ==
    IF n = 0 THEN w
    ELSE Insert(BindOutputs(w, outs, res, n - 1), outs[n], res[n])

Min(a, b) == IF a < b THEN a ELSE b

\* the loop of try_solve_out_of_range: big-integer arithmetic
RECURSIVE BigBitsLoop(_, _, _)
BigBitsLoop(i, num, res) ==
    IF i < 0 THEN [num |-> num, res |-> res]
    ELSE IF Pow2(i) <= num
         THEN BigBitsLoop(i - 1, num - Pow2(i), Append(res, 1))
         ELSE BigBitsLoop(i - 1, num, Append(res, 0))

\* the input try_solve_out_of_range decomposes
OutOfRangeInput(value) ==
    LET candidate == ToBigUint(value) + ToBigUint(MaxValue) + ToBigUint(FFrom(1))
    IN  IF candidate < Pow2(RequiredBits) THEN candidate ELSE ToBigUint(value)

Running == pc \in {"ArgsBound", "Executing"}
AtStatement == Running /\ idx <= Len(prog.statements)
Statement == prog.statements[idx]

\* the guarded pattern (Solver::Bits(bitwidth), inputs, true) if ... of the
\* match over the directive: || binds looser than &&
OutOfRangeGuard(d) ==
    \/ Len(d.inputs[1].left) > 1
    \/ /\ Len(d.inputs[1].right) > 1
       /\ d.solver.width = RequiredBits

\* the match over the directive with the flag left out of the pattern
DirectiveArm_IgnoresFlag(d) ==
    IF d.solver.name # "Bits" THEN "solver"
    ELSE IF Len(d.inputs) = 0 THEN "abort"
    ELSE IF OutOfRangeGuard(d) THEN "out_of_range"
    ELSE "solver"

\* the arm of the match over (&d.solver, &d.inputs, should_try_out_of_range):
\* the guard is evaluated only when the pattern matches, and inputs[0]
\* aborts on an empty input list
DirectiveArm(d) ==
    IF ~(d.solver.name = "Bits" /\ flag) THEN "solver"
    ELSE IF Len(d.inputs) = 0 THEN "abort"
    ELSE IF OutOfRangeGuard(d) THEN "out_of_range"
    ELSE "solver"

\* a failed unwrap, assertion or index: the thread panics
Abort ==
    /\ pc' = "Aborted"
    /\ UNCHANGED <<idx, result>>

\* an error that is recorded while the loop goes on
Fail_Continues(e) ==
    /\ pc' = "Executing"
    /\ result' = Err(e)
    /\ idx' = idx + 1

\* return Err(e)
Fail(e) ==
    /\ pc' = "Failed"
    /\ result' = Err(e)
    /\ UNCHANGED idx

NoWrite ==
    /\ written' = <<>>
    /\ UNCHANGED witness

\* the loop staying at the statement it has just executed
Advance_Repeats ==
    /\ pc' = "Executing"
    /\ UNCHANGED <<idx, result>>

\* the loop goes on to the next statement
Advance ==
    /\ pc' = "Executing"
    /\ idx' = idx + 1
    /\ UNCHANGED result

\* check_inputs comparing with <= where the code has ==
CheckInputs_AcceptsSurplus ==
    /\ pc = "Init"
    /\ arm' = "check_inputs"
    /\ IF Len(prog.arguments) <= Len(inputs)
       THEN pc' = "InputsChecked" /\ UNCHANGED result
       ELSE /\ pc' = "Failed"
            /\ result' = Err(WrongInputCount(Len(prog.arguments), Len(inputs)))
    /\ written' = <<>>
    /\ UNCHANGED <<p, flag, prog, inputs, witness, idx, call, ret>>

\* self.check_inputs(&program, &inputs)?
CheckInputs ==
    /\ pc = "Init"
    /\ arm' = "check_inputs"
    /\ IF Len(prog.arguments) = Len(inputs)
       THEN pc' = "InputsChecked" /\ UNCHANGED result
       ELSE /\ pc' = "Failed"
            /\ result' = Err(WrongInputCount(Len(prog.arguments), Len(inputs)))
    /\ written' = <<>>
    /\ UNCHANGED <<p, flag, prog, inputs, witness, idx, call, ret>>

\* the seed ~one |-> 1 and the binding of the arguments
SeedWitness ==
    /\ pc = "InputsChecked"
    /\ arm' = "seed"
    /\ witness' = BindArguments(prog.arguments, inputs, Len(prog.arguments))
    /\ pc' = "ArgsBound"
    /\ idx' = 1
    /\ written' = <<ONE>> \o prog.arguments
    /\ UNCHANGED <<p, flag, prog, inputs, result, call, ret>>

\* Statement::Constraint(quad, lin) with lin.is_assignee(&witness)
ConstraintAssign ==
    /\ AtStatement
    /\ Statement.kind = "Constraint"
    /\ IsAssignee(Statement.lin, witness)
    /\ arm' = "assign"
    /\ LET val == QuadEvaluate(Statement.quad, witness)
       IN  IF val.ok
           THEN /\ witness' = Insert(witness, Statement.lin[1].var, val.val)
                /\ written' = <<Statement.lin[1].var>>
                /\ Advance
           ELSE /\ Abort
                /\ written' = <<>>
                /\ UNCHANGED witness
    /\ UNCHANGED <<p, flag, prog, inputs, call, ret>>

\* the checking arm without the return on a mismatch
ConstraintCheck_NeverFails ==
    /\ AtStatement
    /\ Statement.kind = "Constraint"
    /\ ~IsAssignee(Statement.lin, witness)
    /\ arm' = "check"
    /\ LET lhs_value == QuadEvaluate(Statement.quad, witness)
           rhs_value == LinEvaluate(Statement.lin, witness)
       IN  IF lhs_value.ok /\ rhs_value.ok THEN Advance ELSE Abort
    /\ written' = <<>>
    /\ UNCHANGED <<p, flag, prog, inputs, witness, call, ret>>

\* the checking arm reporting the two sides the wrong way round
ConstraintCheck_SwapsSides ==
    /\ AtStatement
    /\ Statement.kind = "Constraint"
    /\ ~IsAssignee(Statement.lin, witness)
    /\ arm' = "check"
    /\ LET lhs_value == QuadEvaluate(Statement.quad, witness)
           rhs_value == LinEvaluate(Statement.lin, witness)
       IN  IF lhs_value.ok /\ rhs_value.ok
           THEN IF lhs_value.val # rhs_value.val
                THEN Fail(UnsatisfiedConstraint(ToDecString(rhs_value.val),
                                                ToDecString(lhs_value.val)))
                ELSE Advance
           ELSE Abort
    /\ written' = <<>>
    /\ UNCHANGED <<p, flag, prog, inputs, witness, call, ret>>

\* the checking arm binding the variable of a single-term linear side to the
\* value of the quadratic side where the code compares
ConstraintCheck_Rebinds ==
    /\ AtStatement
    /\ Statement.kind = "Constraint"
    /\ ~IsAssignee(Statement.lin, witness)
    /\ arm' = "check"
    /\ LET lhs_value == QuadEvaluate(Statement.quad, witness)
           rhs_value == LinEvaluate(Statement.lin, witness)
       IN  IF lhs_value.ok /\ rhs_value.ok
           THEN IF Len(Statement.lin) = 1
                THEN /\ witness' = Insert(witness, Statement.lin[1].var, lhs_value.val)
                     /\ written' = <<Statement.lin[1].var>>
                     /\ Advance
                ELSE /\ IF lhs_value.val # rhs_value.val
                        THEN Fail(UnsatisfiedConstraint(ToDecString(lhs_value.val),
                                                        ToDecString(rhs_value.val)))
                        ELSE Advance
                     /\ NoWrite
           ELSE Abort /\ NoWrite
    /\ UNCHANGED <<p, flag, prog, inputs, call, ret>>

\* Statement::Constraint(quad, lin) otherwise
ConstraintCheck ==
    /\ AtStatement
    /\ Statement.kind = "Constraint"
    /\ ~IsAssignee(Statement.lin, witness)
    /\ arm' = "check"
    /\ LET lhs_value == QuadEvaluate(Statement.quad, witness)
           rhs_value == LinEvaluate(Statement.lin, witness)
       IN  IF lhs_value.ok /\ rhs_value.ok
           THEN IF lhs_value.val # rhs_value.val
                THEN Fail(UnsatisfiedConstraint(ToDecString(lhs_value.val),
                                                ToDecString(rhs_value.val)))
                ELSE Advance
           ELSE Abort
    /\ written' = <<>>
    /\ UNCHANGED <<p, flag, prog, inputs, witness, call, ret>>

\* Statement::Directive(d) taking the guarded arm: try_solve_out_of_range
DirectiveOutOfRange ==
    /\ AtStatement
    /\ Statement.kind = "Directive"
    /\ DirectiveArm(Statement) # "solver"
    /\ arm' = "out_of_range"
    /\ IF DirectiveArm(Statement) = "abort"
       THEN Abort /\ NoWrite
       ELSE LET value == QuadEvaluate(Statement.inputs[1], witness)
                r == BigBitsLoop(RequiredBits - 1, OutOfRangeInput(value.val), <<>>)
                outs == Statement.outputs
            IN  IF ~value.ok \/ r.num # 0
                THEN Abort /\ NoWrite
                ELSE /\ witness' = BindOutputs(witness, outs, r.res,
                                               Min(Len(outs), Len(r.res)))
                     /\ written' = SubSeq(outs, 1, Min(Len(outs), Len(r.res)))
                     /\ IF Len(outs) > Len(r.res) THEN Abort ELSE Advance
    /\ UNCHANGED <<p, flag, prog, inputs, call, ret>>

\* Statement::Directive(d) taking the default arm: execute_solver
DirectiveSolve ==
    /\ AtStatement
    /\ Statement.kind = "Directive"
    /\ DirectiveArm(Statement) = "solver"
    /\ arm' = "solver"
    /\ LET d == Statement
           evaluated == [i \in 1..Len(d.inputs) |-> QuadEvaluate(d.inputs[i], witness)]
           values == [i \in 1..Len(d.inputs) |-> evaluated[i].val]
           r == ExecuteSolver(d.solver, values)
       IN  IF \E i \in 1..Len(d.inputs) : ~evaluated[i].ok
           THEN Abort /\ NoWrite
           ELSE CASE r.status = "ok" ->
                       /\ witness' = BindOutputs(witness, d.outputs, r.res,
                                                 Min(Len(d.outputs), Len(r.res)))
                       /\ written' = SubSeq(d.outputs, 1, Min(Len(d.outputs), Len(r.res)))
                       /\ IF Len(d.outputs) > Len(r.res) THEN Abort ELSE Advance
                  [] r.status = "err" ->
                       Fail(SolverError) /\ NoWrite
                  [] OTHER ->
                       Abort /\ NoWrite
    /\ UNCHANGED <<p, flag, prog, inputs, call, ret>>

\* Ok(Witness(witness)) after the last statement
Return ==
    /\ Running
    /\ idx > Len(prog.statements)
    /\ arm' = "return"
    /\ pc' = "Done"
    /\ result' = Ok(witness)
    /\ written' = <<>>
    /\ UNCHANGED <<p, flag, prog, inputs, witness, idx, call, ret>>

-----------------------------------------------------------------------------
(* The programs and inputs execute is run on *)

\* the moduli of the fields execute is instantiated with
ExecModuli == {5}

\* the input values
InputValues == {0, 3}

\* 1 * v
Var(v) == <<Term(v, 1)>>
\* 1 * v with a zero-coefficient term after it: the same canonical form
VarPlusZero(v) == <<Term(v, 1), Term(ONE, 0)>>
\* (1 * ~one) * (1 * v)
QVar(v) == Quad(Var(ONE), Var(v))
\* 1 * v + 1 * ~one
VarPlusOne(v) == <<Term(v, 1), Term(ONE, 1)>>

\* the argument lists: none, one, two, a repeated variable, ~one itself
ArgumentLists == {<<>>, <<1>>, <<1, 2>>, <<1, 1>>, <<ONE>>}

Constraints ==
    { Constraint(Quad(Var(ONE), <<Term(1, 2)>>), Var(2)),
      Constraint(Quad(Var(ONE), <<Term(1, 2)>>), Var(ONE)),
      Constraint(Quad(Var(1), Var(1)), Var(1)),
      Constraint(Quad(Var(ONE), <<Term(1, 2)>>), VarPlusZero(2)),
      Constraint(QVar(2), Var(3)),
      Constraint(Quad(<<Term(1, 1), Term(ONE, 1)>>, Var(ONE)), <<Term(2, 2)>>),
      Constraint(Quad(<<>>, Var(1)), <<>>) }

Directives ==
    { Directive(Bits(RequiredBits), <<QVar(1)>>, <<2, 3, 4>>),
      Directive(Bits(RequiredBits), <<Quad(VarPlusZero(1), Var(ONE))>>, <<2, 3, 4>>),
      Directive(Bits(RequiredBits), <<Quad(Var(ONE), VarPlusZero(1))>>, <<2, 3, 4>>),
      Directive(Bits(RequiredBits - 1), <<Quad(VarPlusZero(1), Var(ONE))>>, <<2, 3>>),
      Directive(Bits(RequiredBits - 1), <<Quad(Var(ONE), VarPlusZero(1))>>, <<2, 3>>),
      Directive(Bits(RequiredBits - 1), <<Quad(VarPlusOne(1), Var(ONE))>>, <<2, 3>>),
      Directive(Bits(RequiredBits), <<Quad(VarPlusZero(1), Var(ONE)), QVar(4)>>, <<2, 3>>),
      Directive(Bits(RequiredBits), <<>>, <<2>>),
      Directive(Plain("ConditionEq"), <<QVar(1)>>, <<3, 4>>),
      Directive(Plain("ConditionEq"), <<QVar(1)>>, <<2, 3, 4>>),
      Directive(Plain("Or"), <<QVar(1), QVar(1)>>, <<1>>),
      Directive(Plain("Div"), <<QVar(ONE), QVar(1)>>, <<2>>) }

Statements == Constraints \cup Directives

SeqsUpTo(S, n) == UNION {[1..k -> S] : k \in 0..n}

Init ==
    /\ p \in ExecModuli
    /\ flag \in BOOLEAN
    /\ prog \in [arguments : ArgumentLists, statements : SeqsUpTo(Statements, MaxStmts)]
    /\ inputs \in SeqsUpTo(InputValues, MaxInputs)
    /\ witness = EmptyWitness
    /\ pc = "Init"
    /\ idx = 0
    /\ arm = "none"
    /\ written = <<>>
    /\ result = NoResult
    /\ call = NoCall
    /\ ret = NoReturn

Next ==
    \/ CheckInputs
    \/ SeedWitness
    \/ ConstraintAssign
    \/ ConstraintCheck
    \/ DirectiveOutOfRange
    \/ DirectiveSolve
    \/ Return

Spec == Init /\ [][Next]_vars

-----------------------------------------------------------------------------
(* Direct calls of execute_solver, as the unit tests make them *)

IsPrime(q) == q > 1 /\ \A d \in 2..(q - 1) : q % d # 0

\* the moduli of the fields execute_solver is called in
SolverModuli == {q \in 3..MaxModulus : IsPrime(q)}

\* every variant of Solver, Bits with the widths up to one past the field's
Solvers ==
    {Bits(w) : w \in 0..(RequiredBits + 1)}
    \cup {Plain(n) : n \in {"ConditionEq", "Xor", "Or", "ShaAndXorAndXorAnd",
                            "ShaCh", "Div"}}

SolverInit ==
    /\ p \in SolverModuli
    /\ call \in [solver : Solvers, inputs : SeqsUpTo(0..(p - 1), MaxSolverInputs)]
    /\ ret = NoReturn
    /\ flag = FALSE
    /\ prog = [arguments |-> <<>>, statements |-> <<>>]
    /\ inputs = <<>>
    /\ witness = EmptyWitness
    /\ pc = "Solver"
    /\ idx = 0
    /\ arm = "none"
    /\ written = <<>>
    /\ result = NoResult

\* interpreter.execute_solver(&solver, &inputs)
CallSolver ==
    /\ pc = "Solver"
    /\ ret = NoReturn
    /\ ret' = ExecuteSolver(call.solver, call.inputs)
    /\ UNCHANGED <<p, flag, prog, inputs, witness, pc, idx, arm, written, result, call>>

SolverNext == CallSolver

SolverSpec == SolverInit /\ [][SolverNext]_vars

-----------------------------------------------------------------------------
(* The LinComb / QuadComb algebra (ir/expression.rs) *)

\* BTreeMap::remove
Remove(m, k) == [v \in (DOMAIN m) \ {k} |-> m[v]]

\* LinComb::zero
LinZero == <<>>

\* LinComb::is_zero: the stored term list is empty
IsZero(l) == Len(l) = 0

\* BTreeMap::new
EmptyMap == [v \in {} |-> 0]

\* the closure of the fold of into_canonical with the removal of an entry
\* whose sum reaches zero left out
CanonicalStep_KeepsZeroSum(acc, v, coeff) ==
    IF coeff # 0
    THEN IF v \in DOMAIN acc
         THEN [acc EXCEPT ![v] = FAdd(acc[v], coeff)]
         ELSE Insert(acc, v, coeff)
    ELSE acc

\* the closure of the fold of into_canonical: a zero coefficient is skipped,
\* an occupied entry is updated or, when the sum is zero, removed, a vacant
\* entry is filled
CanonicalStep(acc, v, coeff) ==
    IF coeff # 0
    THEN IF v \in DOMAIN acc
         THEN IF FAdd(acc[v], coeff) # 0
              THEN [acc EXCEPT ![v] = FAdd(acc[v], coeff)]
              ELSE Remove(acc, v)
         ELSE Insert(acc, v, coeff)
    ELSE acc

RECURSIVE CanonicalFold(_, _)
CanonicalFold(l, n) ==
    IF n = 0 THEN EmptyMap
    ELSE CanonicalStep(CanonicalFold(l, n - 1), l[n].var, l[n].coeff)

\* LinComb::into_canonical: the BTreeMap the fold over the stored terms builds
IntoCanonical(l) == CanonicalFold(l, Len(l))

\* the least key of a non-empty map: FlatVariable orders by its id
FirstKey(m) == CHOOSE k \in DOMAIN m : \A j \in DOMAIN m : k <= j

\* From<CanonicalLinComb> for LinComb: the entries of the map in the order
\* its iterator yields them, ascending by key
RECURSIVE FromCanonical(_)
FromCanonical(m) ==
    IF DOMAIN m = {} THEN <<>>
    ELSE <<Term(FirstKey(m), m[FirstKey(m)])>>
             \o FromCanonical(Remove(m, FirstKey(m)))

\* reduce that loses the first entry of the map
Reduce_DropsFirst(l) ==
    IF DOMAIN IntoCanonical(l) = {} THEN <<>>
    ELSE Tail(FromCanonical(IntoCanonical(l)))

\* LinComb::reduce
Reduce(l) == FromCanonical(IntoCanonical(l))

\* PartialEq for LinComb comparing the stored term lists
LinEq_StoredLists(a, b) == a = b

\* PartialEq for LinComb: equality of the canonical forms
LinEq(a, b) == IntoCanonical(a) = IntoCanonical(b)

\* PartialEq for QuadComb
QuadEq(q, r) == LinEq(q.left, r.left) /\ LinEq(q.right, r.right)

\* Add for LinComb keeping of the right operand only the terms whose variable
\* the left operand does not hold
LinAdd_DropsRepeated(a, b) ==
    a \o SelectSeq(b, LAMBDA t : t.var \notin LinVars(a))

\* Add for LinComb: the stored lists one after the other
LinAdd(a, b) == a \o b

\* Sub for LinComb with the terms of the right operand not negated
LinSub_NoNegation(a, b) == a \o b

\* Sub for LinComb: the left list, then the right list with its coefficients
\* negated
LinSub(a, b) == a \o [i \in 1..Len(b) |-> Term(b[i].var, FSub(0, b[i].coeff))]

\* Mul<&T> for LinComb: self when the scalar is one, else every coefficient
\* scaled
LinMul(l, scalar) ==
    IF scalar = 1 THEN l
    ELSE [i \in 1..Len(l) |-> Term(l[i].var, FMul(l[i].coeff, scalar))]

\* the fold of the coefficients from T::zero()
RECURSIVE FoldCoeffs(_, _)
FoldCoeffs(l, n) ==
    IF n = 0 THEN 0 ELSE FAdd(FoldCoeffs(l, n - 1), l[n].coeff)

\* Result<T, Self> and Result<LinComb<T>, Self>
AlgOk(v) == [ok |-> TRUE, val |-> v]
AlgErr(e) == [ok |-> FALSE, val |-> e]

\* try_constant without the test of the first variable against ~one
TryConstant_AnyVariable(l) ==
    IF Len(l) = 0 THEN AlgOk(0)
    ELSE IF \A i \in 1..Len(l) : l[i].var = l[1].var
         THEN AlgOk(FoldCoeffs(l, Len(l)))
         ELSE AlgErr(l)

\* LinComb::try_constant
TryConstant(l) ==
    IF Len(l) = 0 THEN AlgOk(0)
    ELSE IF l[1].var # ONE THEN AlgErr(l)
         ELSE IF \A i \in 1..Len(l) : l[i].var = l[1].var
              THEN AlgOk(FoldCoeffs(l, Len(l)))
              ELSE AlgErr(l)

\* try_summand returning the coefficient of the first term where the code
\* returns the fold of all coefficients
TrySummand_FirstCoefficient(l) ==
    IF Len(l) = 0 THEN AlgErr(l)
    ELSE IF \A i \in 1..Len(l) : l[i].var = l[1].var
         THEN AlgOk(<<l[1].var, l[1].coeff>>)
         ELSE AlgErr(l)

\* LinComb::try_summand
TrySummand(l) ==
    IF Len(l) = 0 THEN AlgErr(l)
    ELSE IF \A i \in 1..Len(l) : l[i].var = l[1].var
         THEN AlgOk(<<l[1].var, FoldCoeffs(l, Len(l))>>)
         ELSE AlgErr(l)

\* try_linear scaling the constant left factor where the code scales the
\* right factor
TryLinear_ScalesLeft(q) ==
    IF IsZero(q.left) \/ IsZero(q.right) THEN AlgOk(LinZero)
    ELSE IF TryConstant(q.left).ok
         THEN AlgOk(LinMul(q.left, TryConstant(q.left).val))
         ELSE IF TryConstant(q.right).ok
              THEN AlgOk(LinMul(TryConstant(q.left).val, TryConstant(q.right).val))
              ELSE AlgErr(Quad(TryConstant(q.left).val, TryConstant(q.right).val))

\* QuadComb::try_linear
TryLinear(q) ==
    IF IsZero(q.left) \/ IsZero(q.right) THEN AlgOk(LinZero)
    ELSE IF TryConstant(q.left).ok
         THEN AlgOk(LinMul(q.right, TryConstant(q.left).val))
         ELSE IF TryConstant(q.right).ok
              THEN AlgOk(LinMul(TryConstant(q.left).val, TryConstant(q.right).val))
              ELSE AlgErr(Quad(TryConstant(q.left).val, TryConstant(q.right).val))

\* the compact decimal representation of a coefficient
ToCompactDecString(c) == ToDecString(c)

\* Display for FlatVariable
DisplayVariable(v) == IF v = ONE THEN "~one" ELSE "_" \o ToDecString(v)

\* format!("{} * {}", v.to_compact_dec_string(), k)
DisplayTerm(t) == ToCompactDecString(t.coeff) \o " * " \o DisplayVariable(t.var)

\* join(" + ")
RECURSIVE Join(_, _)
Join(ts, n) ==
    IF n = 0 THEN ""
    ELSE IF n = 1 THEN DisplayTerm(ts[1])
         ELSE Join(ts, n - 1) \o " + " \o DisplayTerm(ts[n])

\* Display for LinComb: "0" when is_zero, else the entries of the canonical
\* form joined
DisplayLin(l) ==
    IF IsZero(l) THEN "0"
    ELSE Join(FromCanonical(IntoCanonical(l)), Len(FromCanonical(IntoCanonical(l))))

-----------------------------------------------------------------------------
(* Direct calls of the operations of the algebra *)

\* the modulus of the field the operations are called in
AlgModuli == {3}

\* the variables of the operands: ~one and _1
AlgVars == {ONE, 1}

\* the terms a stored list is made of: any coefficient, zero included
Terms == {Term(v, c) : v \in AlgVars, c \in 0..(p - 1)}

\* the terms of the operands of QuadComb equality: coefficients 0 and 1
UnitTerms == {Term(v, c) : v \in AlgVars, c \in {0, 1}}

\* stored term lists: any order, repeated variables, zero coefficients
LinCombs(n) == SeqsUpTo(Terms, n)

\* the factors of the operands of QuadComb equality
Factors == SeqsUpTo(UnitTerms, MaxTerms - 2)

\* a call: the operation, the LinCombs it is handed (the factors of its
\* QuadCombs, in order) and its scalar
AlgCall(op, lins, k) == [op |-> op, lins |-> lins, scalar |-> k]

Returned(v) == [status |-> "returned", res |-> v]

\* the calls: each operation with every operand list up to its length
AlgInit ==
    /\ p \in AlgModuli
    /\ \/ \E op \in {"into_canonical", "reduce", "try_constant", "try_summand", "fmt"} :
             \E a \in LinCombs(MaxTerms) : call = AlgCall(op, <<a>>, 0)
       \/ \E a \in LinCombs(MaxTerms) : \E b \in LinCombs(MaxTerms - 1) :
             call = AlgCall("eq", <<a, b>>, 0)
       \/ \E op \in {"add", "sub", "try_linear"} :
             \E a \in LinCombs(MaxTerms - 1) : \E b \in LinCombs(MaxTerms - 1) :
                call = AlgCall(op, <<a, b>>, 0)
       \/ \E a \in LinCombs(MaxTerms) \ LinCombs(MaxTerms - 1) :
             call = AlgCall("sub", <<a, a>>, 0)
       \/ \E a \in LinCombs(MaxTerms) : \E k \in 0..(p - 1) :
             call = AlgCall("mul", <<a>>, k)
       \/ \E a \in Factors : \E b \in Factors : \E c \in Factors : \E d \in Factors :
             call = AlgCall("quad_eq", <<a, b, c, d>>, 0)
    /\ ret = NoReturn
    /\ flag = FALSE
    /\ prog = [arguments |-> <<>>, statements |-> <<>>]
    /\ inputs = <<>>
    /\ witness = EmptyWitness
    /\ pc = "Algebra"
    /\ idx = 0
    /\ arm = "none"
    /\ written = <<>>
    /\ result = NoResult

\* the call of op has not returned yet
Calling(op) == pc = "Algebra" /\ call.op = op /\ ret.status = "pending"

\* l.into_canonical()
CallIntoCanonical ==
    /\ Calling("into_canonical")
    /\ ret' = Returned(IntoCanonical(call.lins[1]))
    /\ UNCHANGED <<p, flag, prog, inputs, witness, pc, idx, arm, written, result, call>>

\* l.reduce()
CallReduce ==
    /\ Calling("reduce")
    /\ ret' = Returned(Reduce(call.lins[1]))
    /\ UNCHANGED <<p, flag, prog, inputs, witness, pc, idx, arm, written, result, call>>

\* l.try_constant()
CallTryConstant ==
    /\ Calling("try_constant")
    /\ ret' = Returned(TryConstant(call.lins[1]))
    /\ UNCHANGED <<p, flag, prog, inputs, witness, pc, idx, arm, written, result, call>>

\* l.try_summand()
CallTrySummand ==
    /\ Calling("try_summand")
    /\ ret' = Returned(TrySummand(call.lins[1]))
    /\ UNCHANGED <<p, flag, prog, inputs, witness, pc, idx, arm, written, result, call>>

\* format!("{}", l)
CallDisplay ==
    /\ Calling("fmt")
    /\ ret' = Returned(DisplayLin(call.lins[1]))
    /\ UNCHANGED <<p, flag, prog, inputs, witness, pc, idx, arm, written, result, call>>

\* a == b
CallEq ==
    /\ Calling("eq")
    /\ ret' = Returned(LinEq(call.lins[1], call.lins[2]))
    /\ UNCHANGED <<p, flag, prog, inputs, witness, pc, idx, arm, written, result, call>>

\* QuadComb(a, b) == QuadComb(c, d)
CallQuadEq ==
    /\ Calling("quad_eq")
    /\ ret' = Returned(QuadEq(Quad(call.lins[1], call.lins[2]), Quad(call.lins[3], call.lins[4])))
    /\ UNCHANGED <<p, flag, prog, inputs, witness, pc, idx, arm, written, result, call>>

\* a + b
CallAdd ==
    /\ Calling("add")
    /\ ret' = Returned(LinAdd(call.lins[1], call.lins[2]))
    /\ UNCHANGED <<p, flag, prog, inputs, witness, pc, idx, arm, written, result, call>>

\* a - b
CallSub ==
    /\ Calling("sub")
    /\ ret' = Returned(LinSub(call.lins[1], call.lins[2]))
    /\ UNCHANGED <<p, flag, prog, inputs, witness, pc, idx, arm, written, result, call>>

\* l * &k
CallMul ==
    /\ Calling("mul")
    /\ ret' = Returned(LinMul(call.lins[1], call.scalar))
    /\ UNCHANGED <<p, flag, prog, inputs, witness, pc, idx, arm, written, result, call>>

\* QuadComb(a, b).try_linear()
CallTryLinear ==
    /\ Calling("try_linear")
    /\ ret' = Returned(TryLinear(Quad(call.lins[1], call.lins[2])))
    /\ UNCHANGED <<p, flag, prog, inputs, witness, pc, idx, arm, written, result, call>>

AlgNext ==
    \/ CallIntoCanonical
    \/ CallReduce
    \/ CallTryConstant
    \/ CallTrySummand
    \/ CallDisplay
    \/ CallEq
    \/ CallQuadEq
    \/ CallAdd
    \/ CallSub
    \/ CallMul
    \/ CallTryLinear

AlgSpec == AlgInit /\ [][AlgNext]_vars

-----------------------------------------------------------------------------
(* The input contract of a Prog *)

Range(f) == {f[i] : i \in DOMAIN f}

QuadVars(q) == LinVars(q.left) \cup LinVars(q.right)

\* the variables the inputs of a directive mention
InputVars(d) == UNION {QuadVars(d.inputs[i]) : i \in 1..Len(d.inputs)}

\* the variables a statement mentions
StatementVars(st) ==
    IF st.kind = "Constraint"
    THEN QuadVars(st.quad) \cup LinVars(st.lin)
    ELSE InputVars(st) \cup Range(st.outputs)

\* ~one, the arguments and every variable of every statement
ProgVars(pr) ==
    {ONE} \cup Range(pr.arguments)
          \cup UNION {StatementVars(pr.statements[i]) : i \in 1..Len(pr.statements)}

\* the arguments are pairwise distinct and none is ~one
ArgumentsDistinct(pr) ==
    \A i \in 1..Len(pr.arguments) :
        /\ pr.arguments[i] # ONE
        /\ \A j \in 1..Len(pr.arguments) : j # i => pr.arguments[j] # pr.arguments[i]

\* no directive names as an output ~one, an argument, a variable of an
\* earlier statement or of its own inputs, or the same variable twice: its
\* outputs are unbound when it executes
DirectiveOutputsFresh(pr) ==
    \A i \in 1..Len(pr.statements) :
        pr.statements[i].kind = "Directive" =>
            LET d == pr.statements[i]
                earlier == {ONE} \cup Range(pr.arguments) \cup InputVars(d)
                           \cup UNION {StatementVars(pr.statements[j]) : j \in 1..(i - 1)}
            IN  \A k \in 1..Len(d.outputs) :
                    /\ d.outputs[k] \notin earlier
                    /\ \A m \in 1..Len(d.outputs) : m # k => d.outputs[m] # d.outputs[k]

WellFormed(pr) == ArgumentsDistinct(pr) /\ DirectiveOutputsFresh(pr)

-----------------------------------------------------------------------------
(* Claims *)

\* C1: execute fails with WrongInputCount{expected = |arguments|, received =
\* |inputs|} exactly when the two lengths differ, and then before the witness
\* is seeded or a statement is executed.
C1_WrongInputCount ==
    LET expected == Len(prog.arguments)
        received == Len(inputs)
    IN  pc # "Init" =>
            /\ received # expected =>
                   /\ pc = "Failed"
                   /\ result = Err(WrongInputCount(expected, received))
                   /\ witness = EmptyWitness
                   /\ idx = 0
                   /\ arm = "check_inputs"
            /\ received = expected =>
                   ~(result.tag = "Err" /\ result.error.kind = "WrongInputCount")

C1_Witness ==
    /\ pc = "Failed"
    /\ Len(prog.arguments) = 2
    /\ result = Err(WrongInputCount(2, 1))

\* the constraint holds on the witness w
ConstraintHolds(st, w) ==
    LET lhs_value == QuadEvaluate(st.quad, w)
        rhs_value == LinEvaluate(st.lin, w)
    IN  lhs_value.ok /\ rhs_value.ok /\ lhs_value.val = rhs_value.val

ConstraintsHold(pr, w) ==
    \A i \in 1..Len(pr.statements) :
        pr.statements[i].kind = "Constraint" => ConstraintHolds(pr.statements[i], w)

\* C2 as claimed: for every Prog on which execute returns a witness, every
\* Constraint(Q, L) of the program has Q(witness) = L(witness) on it.
C2_RoundTripAnyProg ==
    pc = "Done" => ConstraintsHold(prog, result.witness)

\* C2: for every Prog whose directive outputs are unbound when the directive
\* executes, and every input list on which execute returns a witness, every
\* Constraint(Q, L) of the program has Q(witness) = L(witness) on the
\* returned witness, whether it was executed as an assignment or as a check.
C2_RoundTrip ==
    (pc = "Done" /\ DirectiveOutputsFresh(prog)) =>
        ConstraintsHold(prog, result.witness)

C2_Witness ==
    /\ pc = "Done"
    /\ DirectiveOutputsFresh(prog)
    /\ Len(prog.statements) = 2
    /\ prog.statements[1].kind = "Constraint"
    /\ prog.statements[1].lin = Var(2)
    /\ 2 \notin Range(prog.arguments)
    /\ prog.statements[2].kind = "Directive"

\* C3: whenever execute returns a witness, its keys contain ~one, every
\* argument and every variable that occurs in any statement.
C3_WitnessComplete ==
    pc = "Done" => ProgVars(prog) \subseteq DOMAIN result.witness

\* the step writes no key that is bound or that it wrote before, and leaves
\* every bound value as it was
NoRewrite ==
    /\ \A i \in 1..Len(written') :
           /\ written'[i] \notin DOMAIN witness
           /\ \A j \in 1..(i - 1) : written'[j] # written'[i]
    /\ \A v \in DOMAIN witness : v \in DOMAIN witness' /\ witness'[v] = witness[v]

\* C4 as claimed: for every Prog, no step writes a variable that is already
\* a key of the witness, and a bound value never changes.
C4_AssignedOnceAnyProg == [][NoRewrite]_vars

\* C4: the key set of the witness only grows; an assigning constraint never
\* writes a bound variable; and for every Prog whose arguments are pairwise
\* distinct and not ~one and whose directive outputs are unbound when the
\* directive executes, no step writes a variable that is already a key, so
\* a value once bound never changes.
C4_AssignedOnce ==
    [][ /\ DOMAIN witness \subseteq DOMAIN witness'
        /\ (arm' = "assign" \/ WellFormed(prog)) => NoRewrite ]_vars

C4_Witness ==
    /\ WellFormed(prog)
    /\ pc = "Executing"
    /\ arm = "solver"
    /\ written = <<3, 4>>
    /\ 2 \in DOMAIN witness

\* C5: a Constraint(Q, L) whose L is not an assignee fails with
\* UnsatisfiedConstraint{left, right} exactly when Q(witness) # L(witness),
\* left and right being the decimal renderings of the two values; when they
\* are equal the loop goes on with the next statement.
C5_CheckingConstraint ==
    [][ (/\ AtStatement
         /\ Statement.kind = "Constraint"
         /\ ~IsAssignee(Statement.lin, witness)
         /\ QuadEvaluate(Statement.quad, witness).ok
         /\ LinEvaluate(Statement.lin, witness).ok) =>
            LET q == QuadEvaluate(Statement.quad, witness).val
                l == LinEvaluate(Statement.lin, witness).val
            IN  IF q # l
                THEN /\ pc' = "Failed"
                     /\ result' = Err(UnsatisfiedConstraint(ToDecString(q), ToDecString(l)))
                ELSE /\ pc' = "Executing"
                     /\ idx' = idx + 1
                     /\ result' = NoResult ]_vars

C5_Witness ==
    /\ arm = "check"
    /\ pc = "Failed"
    /\ result = Err(UnsatisfiedConstraint("0", "1"))

\* C6: a failure stops execute at the failing statement: no step follows
\* it, the index stays, and the result is the error alone, of one of the
\* three kinds, with no witness in it.
C6_FailureStops ==
    [][ /\ result.tag = "None"
        /\ result'.tag = "Err" =>
               /\ pc' = "Failed"
               /\ idx' = idx
               /\ DOMAIN result' = {"tag", "error"}
               /\ result'.error.kind \in
                      {"WrongInputCount", "UnsatisfiedConstraint", "Solver"} ]_vars

C6_Witness ==
    /\ pc = "Failed"
    /\ idx = 1
    /\ Len(prog.statements) = 2
    /\ result.error.kind = "UnsatisfiedConstraint"

\* C7: a Constraint(Q, L) is executed by the assignment arm exactly when L
\* has one stored term (v, 1) with v unbound; the arm binds v to
\* left(witness) * right(witness), binds nothing else, and does not fail
\* with UnsatisfiedConstraint.
C7_AssigningConstraint ==
    [][ (AtStatement /\ Statement.kind = "Constraint") =>
            LET lin == Statement.lin
                single == /\ Len(lin) = 1
                          /\ lin[1].coeff = 1
                          /\ lin[1].var \notin DOMAIN witness
                left == LinEvaluate(Statement.quad.left, witness)
                right == LinEvaluate(Statement.quad.right, witness)
            IN  /\ (arm' = "assign") <=> single
                /\ single => pc' # "Failed" /\ result' = NoResult
                /\ (single /\ left.ok /\ right.ok) =>
                       /\ pc' = "Executing"
                       /\ DOMAIN witness' = DOMAIN witness \cup {lin[1].var}
                       /\ witness'[lin[1].var] = (left.val * right.val) % p
                       /\ \A v \in DOMAIN witness : witness'[v] = witness[v] ]_vars

C7_Witness ==
    /\ arm = "assign"
    /\ pc = "Executing"
    /\ written = <<2>>
    /\ witness[1] = 3
    /\ witness[2] = 1

\* the witness after the seed and the binding of the arguments
SeededAsDeclared ==
    /\ DOMAIN witness = {ONE} \cup Range(prog.arguments)
    /\ witness[ONE] = 1
    /\ \A i \in 1..Len(prog.arguments) : witness[prog.arguments[i]] = inputs[i]

\* C8 as claimed: before the first statement is executed the witness is
\* exactly ~one |-> 1 together with arguments[i] |-> inputs[i] for every i.
C8_SeedAnyProg == pc = "ArgsBound" => SeededAsDeclared

\* C8: for a Prog whose arguments are pairwise distinct and not ~one, the
\* witness before the first statement is exactly ~one |-> 1 together with
\* arguments[i] |-> inputs[i] for every i; no other variable is bound.
C8_Seed == (pc = "ArgsBound" /\ ArgumentsDistinct(prog)) => SeededAsDeclared

C8_Witness ==
    /\ pc = "ArgsBound"
    /\ prog.arguments = <<1, 2>>
    /\ inputs = <<3, 0>>
    /\ witness = (0 :> 1) @@ (1 :> 3) @@ (2 :> 0)

\* C9: with should_try_out_of_range = false no step goes through
\* try_solve_out_of_range, and every directive is handled by execute_solver.
C9_OutOfRangeGated ==
    ~flag =>
        /\ arm # "out_of_range"
        /\ (pc = "Executing" /\ idx > 1 /\ prog.statements[idx - 1].kind = "Directive")
               => arm = "solver"

C9_Witness ==
    /\ ~flag
    /\ pc = "Executing"
    /\ idx = 2
    /\ arm = "solver"
    /\ prog.statements[1] =
           Directive(Bits(RequiredBits), <<Quad(VarPlusZero(1), Var(ONE))>>, <<2, 3, 4>>)

\* the sum of bits[j] * 2^(w - j) over the w entries of bits
RECURSIVE WeightedSum(_, _)
WeightedSum(bits, n) ==
    IF n = 0 THEN 0
    ELSE WeightedSum(bits, n - 1) + bits[n] * Pow2(Len(bits) - n)

\* C10: for every width w up to the field's required bits and every x with
\* 0 <= x < 2^w, Bits(w) on [x] returns w outputs, each 0 or 1, most
\* significant first, whose weighted sum is x, and no other bit vector of
\* length w has that sum.
C10_BitsCorrect ==
    (/\ ret.status # "pending"
     /\ call.solver.name = "Bits"
     /\ call.solver.width <= RequiredBits
     /\ Len(call.inputs) = 1
     /\ call.inputs[1] < Pow2(call.solver.width)) =>
        LET w == call.solver.width
            x == call.inputs[1]
        IN  /\ ret.status = "ok"
            /\ Len(ret.res) = w
            /\ \A j \in 1..w : ret.res[j] \in {0, 1}
            /\ WeightedSum(ret.res, w) = x
            /\ \A bits \in [1..w -> {0, 1}] : WeightedSum(bits, w) = x => bits = ret.res

C10_Witness ==
    /\ p = 7
    /\ call.solver = Bits(3)
    /\ call.inputs = <<5>>
    /\ ret = Solved(<<1, 0, 1>>)

\* C11: ConditionEq on [x] returns [y, m] with (y, m) = (0, 1) when x = 0
\* and (1, 1 / x) when x # 0: y is 0 or 1, y = 1 exactly when x # 0, and
\* x * m = y in the field.
C11_ConditionEq ==
    (/\ ret.status # "pending"
     /\ call.solver.name = "ConditionEq"
     /\ Len(call.inputs) = 1) =>
        LET x == call.inputs[1]
            y == ret.res[1]
            m == ret.res[2]
        IN  /\ ret.status = "ok"
            /\ Len(ret.res) = 2
            /\ y \in {0, 1}
            /\ m \in 0..(p - 1)
            /\ (y = 1) <=> (x # 0)
            /\ x = 0 => m = 1
            /\ x # 0 => (x * m) % p = 1
            /\ (x * m) % p = y

C11_Witness ==
    /\ p = 7
    /\ call.solver.name = "ConditionEq"
    /\ call.inputs = <<3>>
    /\ ret = Solved(<<1, 5>>)

-----------------------------------------------------------------------------
(* The algebra: what the operations returned *)

\* the call of op has returned
ReturnedFrom(op) == pc = "Algebra" /\ call.op = op /\ ret.status = "returned"

\* the integer sum of the coefficients the first n stored terms of l attach
\* to v
RECURSIVE RawSum(_, _, _)
RawSum(l, v, n) ==
    IF n = 0 THEN 0
    ELSE RawSum(l, v, n - 1) + (IF l[n].var = v THEN l[n].coeff ELSE 0)

\* the field sum of all coefficients attached to v in the stored list of l
CoeffSum(l, v) == RawSum(l, v, Len(l)) % p

\* a and b attach the same field sum to every variable
SameCombination(a, b) ==
    \A v \in LinVars(a) \cup LinVars(b) : CoeffSum(a, v) = CoeffSum(b, v)

\* C12: L1 == L2 holds exactly when into_canonical(L1) and
\* into_canonical(L2) are the same mapping, that is when both attach the same
\* field sum to every variable, whatever the order of the terms, the repeated
\* variables and the zero coefficients; QuadComb equality is that equality on
\* the left factors and on the right factors.
C12_Equality ==
    /\ ReturnedFrom("eq") =>
          /\ ret.res = (IntoCanonical(call.lins[1]) = IntoCanonical(call.lins[2]))
          /\ ret.res = SameCombination(call.lins[1], call.lins[2])
    /\ ReturnedFrom("quad_eq") =>
          /\ ret.res = (/\ IntoCanonical(call.lins[1]) = IntoCanonical(call.lins[3])
                        /\ IntoCanonical(call.lins[2]) = IntoCanonical(call.lins[4]))
          /\ ret.res = (/\ SameCombination(call.lins[1], call.lins[3])
                        /\ SameCombination(call.lins[2], call.lins[4]))

\* two lists that differ in order, in a repeated variable: equal
C12_Witness ==
    /\ ReturnedFrom("eq")
    /\ call.lins = << <<Term(1, 1), Term(ONE, 2), Term(1, 1)>>,
                      <<Term(ONE, 2), Term(1, 2)>> >>
    /\ ret.res = TRUE

\* C13: into_canonical(L) holds no zero coefficient, holds each variable once
\* and in ascending order, and gives every variable v the field sum of the
\* coefficients attached to v in the stored list of L, v being absent exactly
\* when that sum is zero, whatever the order of the terms and whether or not
\* a partial sum reaches zero.
C13_Canonical ==
    ReturnedFrom("into_canonical") =>
        LET l == call.lins[1]
            m == ret.res
            entries == FromCanonical(m)
        IN  /\ DOMAIN m \subseteq LinVars(l)
            /\ \A v \in DOMAIN m : m[v] # 0 /\ m[v] = CoeffSum(l, v)
            /\ \A v \in LinVars(l) : v \notin DOMAIN m <=> CoeffSum(l, v) = 0
            /\ Len(entries) = Cardinality(DOMAIN m)
            /\ \A i \in 1..Len(entries) : \A j \in 1..Len(entries) :
                   i < j => entries[i].var < entries[j].var

\* the sum of _1 reaches zero at the second term and the third fills the
\* entry again
C13_Witness ==
    /\ ReturnedFrom("into_canonical")
    /\ call.lins[1] = <<Term(1, 1), Term(1, 2), Term(1, 1)>>
    /\ DOMAIN ret.res = {1}
    /\ ret.res[1] = 1

\* C14: the canonical form of L1 + L2, of L1 - L2 and of L1 * k is the
\* canonical form of the same operation applied to the canonical forms of the
\* operands, and the canonical form of L1 + L2 is that of L2 + L1.
C14_Normalizes ==
    /\ ReturnedFrom("add") =>
          /\ IntoCanonical(ret.res)
                 = IntoCanonical(LinAdd(Reduce(call.lins[1]), Reduce(call.lins[2])))
          /\ IntoCanonical(ret.res)
                 = IntoCanonical(LinAdd(call.lins[2], call.lins[1]))
    /\ ReturnedFrom("sub") =>
          IntoCanonical(ret.res)
              = IntoCanonical(LinSub(Reduce(call.lins[1]), Reduce(call.lins[2])))
    /\ ReturnedFrom("mul") =>
          IntoCanonical(ret.res)
              = IntoCanonical(LinMul(Reduce(call.lins[1]), call.scalar))

\* the left operand cancels to nothing and the right one repeats its variable
C14_Witness ==
    /\ ReturnedFrom("add")
    /\ call.lins = << <<Term(1, 1), Term(1, 2)>>, <<Term(1, 1)>> >>
    /\ ret.res = <<Term(1, 1), Term(1, 2), Term(1, 1)>>
    /\ DOMAIN IntoCanonical(ret.res) = {1}

\* the witnesses that bind ~one to 1 and every variable of the operands
BoundWitnesses == {w \in [AlgVars -> 0..(p - 1)] : w[ONE] = 1}

\* C15: when QuadComb(L, R).try_linear() returns Ok(M), L * R and M evaluate
\* to the same value in every witness that binds ~one to 1 and binds their
\* variables; when it returns Err, the QuadComb carried has the stored left
\* and right lists of the input.
C15_TryLinear ==
    ReturnedFrom("try_linear") =>
        LET q == Quad(call.lins[1], call.lins[2])
        IN  IF ret.res.ok
            THEN \A w \in BoundWitnesses :
                    /\ QuadEvaluate(q, w).ok
                    /\ LinEvaluate(ret.res.val, w).ok
                    /\ QuadEvaluate(q, w).val = LinEvaluate(ret.res.val, w).val
            ELSE ret.res.val = q

\* (2 * ~one) * (1 * _1 + 1 * ~one) is 2 * _1 + 2 * ~one
C15_Witness ==
    /\ ReturnedFrom("try_linear")
    /\ call.lins = << <<Term(ONE, 2)>>, <<Term(1, 1), Term(ONE, 1)>> >>
    /\ ret.res.ok
    /\ ret.res.val = <<Term(1, 2), Term(ONE, 2)>>

\* C16: try_constant returns Ok(0) on the empty combination, Ok(the field sum
\* of all coefficients) when every stored term's variable is ~one, and
\* otherwise Err carrying the stored list unmodified; a value it returns is
\* the value of L in every witness with ~one bound to 1.
C16_TryConstant ==
    ReturnedFrom("try_constant") =>
        LET l == call.lins[1]
            r == ret.res
        IN  /\ Len(l) = 0 => r.ok /\ r.val = 0
            /\ IF \A i \in 1..Len(l) : l[i].var = ONE
               THEN r.ok /\ r.val = CoeffSum(l, ONE)
               ELSE ~r.ok /\ r.val = l
            /\ r.ok => \A w \in BoundWitnesses :
                           /\ LinEvaluate(l, w).ok
                           /\ LinEvaluate(l, w).val = r.val

\* 2 * ~one + 2 * ~one is the constant 1 of the field of 3 elements
C16_Witness ==
    /\ ReturnedFrom("try_constant")
    /\ call.lins[1] = <<Term(ONE, 2), Term(ONE, 2)>>
    /\ ret.res.ok
    /\ ret.res.val = 1

\* the canonical form of l written out: its entries in ascending variable
\* order as "c * v" joined by " + ", and "0" when it has no entry
Rendering(l) ==
    IF DOMAIN IntoCanonical(l) = {} THEN "0"
    ELSE Join(FromCanonical(IntoCanonical(l)), Cardinality(DOMAIN IntoCanonical(l)))

\* C18: Display renders the canonical form of L: its terms in ascending
\* variable order as "c * v" joined by " + ", and the string "0" whenever the
\* canonical form has no terms.
C18_Display == ReturnedFrom("fmt") => ret.res = Rendering(call.lins[1])

\* C19: canonicalization is idempotent: into_canonical(reduce(L)) is
\* into_canonical(L), and reduce(reduce(L)) has the stored term list of
\* reduce(L).
C19_Idempotent ==
    ReturnedFrom("reduce") =>
        /\ IntoCanonical(ret.res) = IntoCanonical(call.lins[1])
        /\ Reduce(ret.res) = ret.res

\* a list out of order with a repeated variable, reduced
C19_Witness ==
    /\ ReturnedFrom("reduce")
    /\ call.lins[1] = <<Term(1, 1), Term(ONE, 2), Term(1, 1)>>
    /\ ret.res = <<Term(ONE, 2), Term(1, 2)>>

\* C20: for every stored list L the canonical form of L - L is the empty
\* combination: L - L equals LinComb::zero().
C20_SubSelf ==
    (ReturnedFrom("sub") /\ call.lins[1] = call.lins[2]) =>
        /\ DOMAIN IntoCanonical(ret.res) = {}
        /\ LinEq(ret.res, LinZero)

\* a three-term list minus itself: six stored terms, none canonical
C20_Witness ==
    /\ ReturnedFrom("sub")
    /\ call.lins[1] = <<Term(1, 1), Term(ONE, 2), Term(1, 1)>>
    /\ call.lins[2] = call.lins[1]
    /\ ret.res = <<Term(1, 1), Term(ONE, 2), Term(1, 1),
                   Term(1, 2), Term(ONE, 1), Term(1, 2)>>

\* C21: try_summand fails on the empty combination; when every stored term
\* has the same variable v it returns (v, the field sum of all coefficients);
\* otherwise it returns Err carrying the stored list unmodified.
C21_TrySummand ==
    ReturnedFrom("try_summand") =>
        LET l == call.lins[1]
            r == ret.res
        IN  IF Len(l) = 0 THEN ~r.ok /\ r.val = l
            ELSE IF Cardinality(LinVars(l)) = 1
                 THEN /\ r.ok
                      /\ Len(r.val) = 2
                      /\ LinVars(l) = {r.val[1]}
                      /\ r.val[2] = CoeffSum(l, r.val[1])
                 ELSE ~r.ok /\ r.val = l

\* 2 * _1 + 2 * _1 is the summand (_1, 1) of the field of 3 elements
C21_Witness ==
    /\ ReturnedFrom("try_summand")
    /\ call.lins[1] = <<Term(1, 2), Term(1, 2)>>
    /\ ret.res.ok
    /\ ret.res.val = <<1, 1>>

\* the directive the last step handled: the one before the index when the
\* loop went on, the one at the index when the step ended the run
HandledDirective ==
    IF pc = "Executing" THEN prog.statements[idx - 1] ELSE prog.statements[idx]

\* the condition under which a directive is meant for the out-of-range bit
\* solver
OutOfRangeIntended(d) ==
    /\ flag
    /\ d.solver.name = "Bits"
    /\ d.solver.width = RequiredBits
    /\ Len(d.inputs[1].left) > 1 \/ Len(d.inputs[1].right) > 1

\* C22: a directive is handled by the out-of-range bit solver if and only if
\* should_try_out_of_range is set and its solver is Bits(w) with w = B and a
\* factor of its first input has more than one stored term; in every other
\* case, Bits(w) with w # B included, it is handled by execute_solver.
\* (Directives with an input are compared: the guard indexes inputs[0].)
C22_OutOfRangeExactly ==
    (arm \in {"out_of_range", "solver"} /\ Len(HandledDirective.inputs) > 0) =>
        /\ arm = "out_of_range" <=> OutOfRangeIntended(HandledDirective)
        /\ arm = "solver" <=> ~OutOfRangeIntended(HandledDirective)

\* the integer the out-of-range bit solver is said to decompose for a first
\* input of value v: v + p when that is below 2^B, else v
OutOfRangeTarget(v) == IF v + p < Pow2(RequiredBits) THEN v + p ELSE v

\* C23: when the out-of-range bit solver runs on a directive whose first input
\* evaluates to v, it decomposes n (v + p if that is below 2^B, else v) most
\* significant bit first over exactly B bits with remainder 0 and binds the
\* directive's outputs in declared order to those bits: the weighted sum of
\* the bound outputs is n, n = v mod p, and n >= p whenever v + p < 2^B.
C23_OutOfRangeBits ==
    [][(/\ AtStatement
        /\ Statement.kind = "Directive"
        /\ arm' = "out_of_range"
        /\ pc' = "Executing") =>
           LET d == Statement
               v == QuadEvaluate(d.inputs[1], witness).val
               n == OutOfRangeTarget(v)
               bound == [j \in 1..Len(d.outputs) |-> witness'[d.outputs[j]]]
           IN  /\ written' = d.outputs
               /\ Len(bound) = RequiredBits
               /\ \A j \in 1..Len(bound) : bound[j] \in {0, 1}
               /\ WeightedSum(bound, Len(bound)) = n
               /\ n % p = v
               /\ v + p < Pow2(RequiredBits) => n >= p]_vars

\* C24: a constraint executed in checking form leaves the witness unchanged:
\* for Constraint(Q, L) where L is not a single term 1 * v with v unbound, in
\* particular where L is 1 * v with v already bound, the step binds no
\* variable and changes no value; for 1 * v with v bound it goes on exactly
\* when Q(witness) is the value v already has.
C24_CheckingFrame ==
    [][(/\ AtStatement
        /\ Statement.kind = "Constraint"
        /\ ~(/\ Len(Statement.lin) = 1
             /\ Statement.lin[1].coeff = 1
             /\ Statement.lin[1].var \notin DOMAIN witness)) =>
           /\ arm' = "check"
           /\ witness' = witness
           /\ written' = <<>>
           /\ (/\ Len(Statement.lin) = 1
               /\ Statement.lin[1].coeff = 1
               /\ QuadEvaluate(Statement.quad, witness).ok) =>
                  (pc' = "Executing"
                      <=> QuadEvaluate(Statement.quad, witness).val
                              = witness[Statement.lin[1].var])]_vars

\* _1 * _1 = _1 checked with _1 bound to 0 by the arguments: nothing written
C24_Witness ==
    /\ arm = "check"
    /\ pc = "Executing"
    /\ idx = 2
    /\ prog.statements[1] = Constraint(Quad(Var(1), Var(1)), Var(1))
    /\ witness = (0 :> 1) @@ (1 :> 0)
    /\ written = <<>>

\* C25: the Bits(w) solver applied to a value x >= 2^w ends its loop with a
\* non-zero remainder and aborts through its assertion: execute neither goes
\* on nor returns an error, and no output of the directive is bound.
C25_BitsOverflowAborts ==
    [][(/\ AtStatement
        /\ Statement.kind = "Directive"
        /\ Statement.solver.name = "Bits"
        /\ arm' = "solver"
        /\ Len(Statement.inputs) = 1
        /\ QuadEvaluate(Statement.inputs[1], witness).ok
        /\ QuadEvaluate(Statement.inputs[1], witness).val
               >= Pow2(Statement.solver.width)) =>
           /\ BitsLoop(Statement.solver.width - 1,
                       QuadEvaluate(Statement.inputs[1], witness).val, <<>>).num # 0
           /\ pc' = "Aborted"
           /\ idx' = idx
           /\ result' = NoResult
           /\ witness' = witness
           /\ written' = <<>>]_vars

\* Bits(2) on _1 + 1 = 4 in the field of 5 elements
C25_Witness ==
    /\ ~flag
    /\ pc = "Aborted"
    /\ arm = "solver"
    /\ idx = 1
    /\ prog.statements[1] =
           Directive(Bits(2), <<Quad(VarPlusOne(1), Var(ONE))>>, <<2, 3>>)
    /\ witness = (0 :> 1) @@ (1 :> 3)
    /\ result = NoResult

\* execute has returned, failed or aborted
Terminated == pc \in {"Done", "Failed", "Aborted"}

\* one step of execute in the order Init -> ArgsBound -> Executing(i) ->
\* Done | Failed: no step after the end, the statement at the index is the
\* one executed, the index moves by exactly one exactly when a statement
\* succeeds and never moves back, Done only past the last statement
InOrder ==
    /\ ~Terminated
    /\ prog' = prog
    /\ pc = "Init" => pc' \in {"InputsChecked", "Failed"} /\ idx' = idx
    /\ pc = "InputsChecked" => pc' = "ArgsBound" /\ idx' = 1
    /\ Running => /\ pc' \in {"Executing", "Done", "Failed", "Aborted"}
                  /\ pc' = "Executing" =>
                         /\ idx <= Len(prog.statements)
                         /\ idx' = idx + 1
                         /\ arm' \in {"assign", "check", "solver", "out_of_range"}
                         /\ arm' \in {"assign", "check"}
                                <=> prog.statements[idx].kind = "Constraint"
                  /\ pc' # "Executing" => idx' = idx
                  /\ pc' = "Done" => idx = Len(prog.statements) + 1

\* the steps execute has behind it, counted from its position: entry, inputs
\* checked, then one per statement passed, then the end
Progress ==
    CASE pc = "Init" -> 0
      [] pc = "InputsChecked" -> 1
      [] Running -> 1 + idx
      [] Terminated -> 3 + Len(prog.statements)

\* execute has a step to take: a directive to handle (the match over a
\* directive has an arm for every case), or one of the other steps enabled
CanStep ==
    \/ AtStatement /\ Statement.kind = "Directive"
    \/ ENABLED CheckInputs
    \/ ENABLED SeedWitness
    \/ ENABLED ConstraintAssign
    \/ ENABLED ConstraintCheck
    \/ ENABLED Return

\* C26: execute follows Init -> ArgsBound -> Executing(0) -> Executing(1) ->
\* ... -> Done | Failed: statements are executed in list order, each at most
\* once, the index advancing by exactly one after each statement that
\* succeeds; Done is reached only after the last statement has succeeded; and
\* every execution reaches Done, Failed or a fatal abort: until then a step
\* can be taken, and every step moves forward in a count that is bounded by
\* the length of the statement list.
C26_Sequential ==
    [][/\ InOrder
       /\ Progress' > Progress
       /\ Progress' <= 3 + Len(prog.statements)
       /\ (Terminated \/ CanStep)']_vars

\* both statements of a two-statement program executed, then Done
C26_Witness ==
    /\ pc = "Done"
    /\ idx = 3
    /\ Len(prog.statements) = 2
    /\ result = Ok(witness)

\* the boolean function each gate solver stands for, on bits
GateReference(name, b) ==
    CASE name = "Xor" -> IF b[1] # b[2] THEN 1 ELSE 0
      [] name = "Or" -> IF b[1] = 1 \/ b[2] = 1 THEN 1 ELSE 0
      [] name = "ShaCh" -> IF b[1] = 1 THEN b[2] ELSE b[3]
      [] name = "ShaAndXorAndXorAnd" -> IF b[1] + b[2] + b[3] >= 2 THEN 1 ELSE 0

\* the number of inputs of each gate solver
GateArity(name) == IF name \in {"Xor", "Or"} THEN 2 ELSE 3

\* C27: for inputs taken from {0, 1} each boolean-gate solver returns a
\* single output in {0, 1} equal to its boolean reference: Xor gives x XOR y,
\* Or gives x OR y, ShaCh gives b if a = 1 else c, and ShaAndXorAndXorAnd
\* gives majority(a, b, c).
C27_BooleanGates ==
    (/\ pc = "Solver"
     /\ ret.status # "pending"
     /\ call.solver.name \in {"Xor", "Or", "ShaCh", "ShaAndXorAndXorAnd"}
     /\ Len(call.inputs) = GateArity(call.solver.name)
     /\ \A i \in 1..Len(call.inputs) : call.inputs[i] \in {0, 1}) =>
        /\ ret.status = "ok"
        /\ Len(ret.res) = 1
        /\ ret.res[1] \in {0, 1}
        /\ ret.res[1] = GateReference(call.solver.name, call.inputs)

\* majority(1, 0, 1) = 1 in the field of 5 elements
C27_Witness ==
    /\ pc = "Solver"
    /\ p = 5
    /\ call.solver = Plain("ShaAndXorAndXorAnd")
    /\ call.inputs = <<1, 0, 1>>
    /\ ret = Solved(<<1>>)

\* C28: no execution of execute returns Error::Solver: execute_solver returns
\* Ok on every path on which it returns, so a step through execute_solver
\* either binds the outputs and goes on or ends in a fatal abort with no
\* result, and an error execute returns is never of the Solver kind.
C28_NoSolverError ==
    /\ result.tag = "Err" => result.error.kind # "Solver"
    /\ arm = "solver" =>
          /\ pc # "Failed"
          /\ pc = "Aborted" => result = NoResult

\* Bits(2) on _1 + 1 = 4 after two arguments were bound: the solver's
\* assertion fails and execute has no result
C28_Witness ==
    /\ ~flag
    /\ arm = "solver"
    /\ pc = "Aborted"
    /\ result = NoResult
    /\ prog.arguments = <<1, 2>>
    /\ inputs = <<3, 0>>
    /\ prog.statements =
           <<Directive(Bits(2), <<Quad(VarPlusOne(1), Var(ONE))>>, <<2, 3>>)>>

\* what the constraint arm of execute leaves behind for Constraint(q, l) met
\* with the witness w: the loop's position, the witness and the result
ConstraintOutcome(q, l, w) ==
    LET lhs_value == QuadEvaluate(q, w)
        rhs_value == LinEvaluate(l, w)
    IN  IF IsAssignee(l, w)
        THEN IF lhs_value.ok
             THEN <<"Executing", Insert(w, l[1].var, lhs_value.val), NoResult>>
             ELSE <<"Aborted", w, NoResult>>
        ELSE IF lhs_value.ok /\ rhs_value.ok
             THEN IF lhs_value.val # rhs_value.val
                  THEN <<"Failed", w,
                         Err(UnsatisfiedConstraint(ToDecString(lhs_value.val),
                                                   ToDecString(rhs_value.val)))>>
                  ELSE <<"Executing", w, NoResult>>
             ELSE <<"Aborted", w, NoResult>>

\* C29: the outcome of execute depends on a constraint's linear side only
\* through its canonical form: when the last statement of the program is
\* Constraint(Q, L), executing it leaves what executing Constraint(Q, L')
\* leaves, L' being the LinComb with the canonical form of L and the reduced
\* stored list (so the program with L' in place of L, which runs alike up to
\* this statement, ends with the same witness or the same error).
C29_CanonicalFormOnly ==
    [][(/\ AtStatement
        /\ idx = Len(prog.statements)
        /\ Statement.kind = "Constraint")
       => <<pc', witness', result'>> =
              ConstraintOutcome(Statement.quad, Reduce(Statement.lin), witness)]_vars

=============================================================================
